---- MODULE Spec2Model ----
(***************************************************************************)
(* Model of libuvc's control-request layer (ctrl.cpp): the generic         *)
(* GET_LEN / GET_* / SET_CUR requests and the interface controls (VC/VS    *)
(* request error code, video power mode).  Every function is one blocking  *)
(* call; the device and libusb are the environment, which picks the        *)
(* transfer's result and the bytes the device puts in the data stage.      *)
(***************************************************************************)
EXTENDS Integers, Sequences, FiniteSets, TLC

VARIABLES bInterfaceNumber, ncalls, nxfers, op, arg, xfers, buf, out, ret

vars == <<bInterfaceNumber, ncalls, nxfers, op, arg, xfers, buf, out, ret>>

(* ------------------------------ bounds --------------------------------- *)
MaxCalls == 2      \* calls made in one behaviour
MaxRet == 2        \* largest byte count the transfer reports

Addresses == {<<0, 0>>, <<5, 9>>, <<0, 255>>, <<255, 0>>, <<255, 255>>}
                                      \* uint8_t unit, uint8_t ctrl
InterfaceNumbers == {0, 1, 255}       \* uint8_t bInterfaceNumber
DataBytes == {0, 255}                 \* bytes of uninitialised or 2-byte buffers
StatusBytes == {0, 6, 11, 27, 255}    \* bytes of one-byte responses
Pointers == {"p", "q"}                \* the caller's void *data
Lens == {2, 65535}                    \* the caller's int len
TransferErrors == {0 - 99, 0 - 1}     \* negative results of the transfer
TransferResults == TransferErrors \cup (0 .. MaxRet)

(* ------------------ declarations of libuvc.h / libusb ------------------ *)
CTRL_TIMEOUT_MILLIS == 0
UVC_SUCCESS == 0
UVC_ERROR_NOT_SUPPORTED == 0 - 12
UVC_VC_VIDEO_POWER_MODE_CONTROL == 1
UVC_VC_REQUEST_ERROR_CODE_CONTROL == 2
UVC_VC_VIDEO_POWER_MODE_FULL == 11
UVC_VC_VIDEO_POWER_MODE_DEVICE_DEPENDENT == 27
REQ_TYPE_SET == "REQ_TYPE_SET"
REQ_TYPE_GET == "REQ_TYPE_GET"
UVC_SET_CUR == "UVC_SET_CUR"
UVC_GET_LEN == "UVC_GET_LEN"
\* the request codes callers pass (three of enum uvc_req_code)
uvc_req_code == {"UVC_SET_CUR", "UVC_GET_CUR", "UVC_GET_LEN"}
uvc_device_power_mode == {UVC_VC_VIDEO_POWER_MODE_FULL,
                          UVC_VC_VIDEO_POWER_MODE_DEVICE_DEPENDENT}

(* ----------------------------- arithmetic ------------------------------ *)
U8(x) == x % 256
U16(x) == x % 65536

RECURSIVE Pow2(_)
Pow2(n) == IF n = 0 THEN 1 ELSE 2 * Pow2(n - 1)

\* x << n on int operands
Shl(x, n) == x * Pow2(n)

\* a | b on non-negative int operands
RECURSIVE BitOr(_, _)
BitOr(a, b) ==
  IF a = 0 THEN b
  ELSE IF b = 0 THEN a
  ELSE (IF a % 2 = 1 \/ b % 2 = 1 THEN 1 ELSE 0) + 2 * BitOr(a \div 2, b \div 2)

Min(a, b) == IF a < b THEN a ELSE b

\* #define SW_TO_SHORT(p) ((p)[0] | ((p)[1] << 8)); p is 1-indexed here
SW_TO_SHORT(p) == BitOr(p[1], Shl(p[2], 8))

Buffers(n) == [1 .. n -> DataBytes]

(* ------------------------- the transfer primitive ---------------------- *)
\* The setup packet and data stage libusb_control_transfer is called with;
\* wValue, wIndex and wLength are uint16_t parameters.
libusb_control_transfer(bmRequestType, bRequest, wValue, wIndex, data, wLength, timeout) ==
  [bmRequestType |-> bmRequestType, bRequest |-> bRequest,
   wValue |-> U16(wValue), wIndex |-> U16(wIndex),
   data |-> data, wLength |-> U16(wLength), timeout |-> timeout]

\* The bytes a device-to-host data stage can deliver when the transfer
\* reports r: nothing on an error, at most wLength bytes otherwise.
Delivered(r, wLength, S) == [1 .. (IF r < 0 THEN 0 ELSE Min(r, wLength)) -> S]

\* The buffer after the device's bytes were stored at its start.
Received(b, dev) == [i \in 1 .. Len(b) |-> IF i <= Len(dev) THEN dev[i] ELSE b[i]]

\* One entry of the log of the transfers a call made.
Done(t, r, dev) == [setup |-> t, transferred |-> r, dev |-> dev]

(* --------------------------- GENERIC CONTROLS -------------------------- *)
uvc_get_ctrl_len_request(unit, ctrl, b) ==
  libusb_control_transfer(REQ_TYPE_GET, UVC_GET_LEN,
                          Shl(ctrl, 8),
                          BitOr(Shl(unit, 8), bInterfaceNumber),
                          b, 2, CTRL_TIMEOUT_MILLIS)

uvc_get_ctrl_len_return_nosign(r, b) == U16(SW_TO_SHORT(b))

uvc_get_ctrl_len_return(r, b) ==
  IF r < 0 THEN r ELSE U16(SW_TO_SHORT(b))

\* buf[2] is not initialised: it holds whatever the stack held.
uvc_get_ctrl_len ==
  /\ ncalls < MaxCalls
  /\ \E a \in Addresses, stack \in Buffers(2), r \in TransferResults :
       \E dev \in Delivered(r, 2, DataBytes) :
         LET unit == a[1]
             ctrl == a[2] IN
         /\ op' = "uvc_get_ctrl_len"
         /\ arg' = [unit |-> unit, ctrl |-> ctrl]
         /\ xfers' = <<Done(uvc_get_ctrl_len_request(unit, ctrl, "buf"), r, dev)>>
         /\ buf' = Received(stack, dev)
         /\ ret' = uvc_get_ctrl_len_return(r, Received(stack, dev))
         /\ out' = << >>
         /\ nxfers' = nxfers + 1
         /\ ncalls' = ncalls + 1
         /\ UNCHANGED bInterfaceNumber

uvc_get_ctrl_request_noshift(unit, ctrl, data, len, req_code) ==
  libusb_control_transfer(REQ_TYPE_GET, req_code,
                          Shl(ctrl, 8),
                          BitOr(unit, bInterfaceNumber),
                          data, len, CTRL_TIMEOUT_MILLIS)

uvc_get_ctrl_request(unit, ctrl, data, len, req_code) ==
  libusb_control_transfer(REQ_TYPE_GET, req_code,
                          Shl(ctrl, 8),
                          BitOr(Shl(unit, 8), bInterfaceNumber),
                          data, len, CTRL_TIMEOUT_MILLIS)

\* data is only handed on, never dereferenced: it is modelled as the pointer.
uvc_get_ctrl ==
  /\ ncalls < MaxCalls
  /\ \E a \in Addresses, data \in Pointers, len \in Lens,
        req_code \in uvc_req_code, r \in TransferResults :
       LET unit == a[1]
           ctrl == a[2] IN
       /\ op' = "uvc_get_ctrl"
       /\ arg' = [unit |-> unit, ctrl |-> ctrl, data |-> data,
                  len |-> len, req_code |-> req_code]
       /\ xfers' = <<Done(uvc_get_ctrl_request(unit, ctrl, data, len, req_code), r, << >>)>>
       /\ buf' = << >>
       /\ ret' = r
       /\ out' = << >>
       /\ nxfers' = nxfers + 1
       /\ ncalls' = ncalls + 1
       /\ UNCHANGED bInterfaceNumber

uvc_set_ctrl_request_get(unit, ctrl, data, len) ==
  libusb_control_transfer(REQ_TYPE_GET, UVC_SET_CUR,
                          Shl(ctrl, 8),
                          BitOr(Shl(unit, 8), bInterfaceNumber),
                          data, len, CTRL_TIMEOUT_MILLIS)

uvc_set_ctrl_request(unit, ctrl, data, len) ==
  libusb_control_transfer(REQ_TYPE_SET, UVC_SET_CUR,
                          Shl(ctrl, 8),
                          BitOr(Shl(unit, 8), bInterfaceNumber),
                          data, len, CTRL_TIMEOUT_MILLIS)

uvc_set_ctrl ==
  /\ ncalls < MaxCalls
  /\ \E a \in Addresses, data \in Pointers, len \in Lens,
        r \in TransferResults :
       LET unit == a[1]
           ctrl == a[2] IN
       /\ op' = "uvc_set_ctrl"
       /\ arg' = [unit |-> unit, ctrl |-> ctrl, data |-> data, len |-> len]
       /\ xfers' = <<Done(uvc_set_ctrl_request(unit, ctrl, data, len), r, << >>)>>
       /\ buf' = << >>
       /\ ret' = r
       /\ out' = << >>
       /\ nxfers' = nxfers + 1
       /\ ncalls' = ncalls + 1
       /\ UNCHANGED bInterfaceNumber

(* -------------------------- INTERFACE CONTROLS ------------------------- *)
uvc_vc_get_error_code_request(req_code) ==
  libusb_control_transfer(REQ_TYPE_GET, req_code,
                          Shl(UVC_VC_REQUEST_ERROR_CODE_CONTROL, 8),
                          bInterfaceNumber,
                          "error_char", 1, CTRL_TIMEOUT_MILLIS)

\* error_char starts as 0 and holds the device's byte once one arrived.
uvc_vc_get_error_code ==
  /\ ncalls < MaxCalls
  /\ \E req_code \in uvc_req_code, r \in TransferResults :
       \E dev \in Delivered(r, 1, StatusBytes) :
         LET error_char == Received(<<0>>, dev)[1] IN
         /\ op' = "uvc_vc_get_error_code"
         /\ arg' = [req_code |-> req_code]
         /\ xfers' = <<Done(uvc_vc_get_error_code_request(req_code), r, dev)>>
         /\ buf' = << >>
         /\ IF r = 1
              THEN out' = <<error_char>> /\ ret' = UVC_SUCCESS
              ELSE out' = << >> /\ ret' = r
         /\ nxfers' = nxfers + 1
         /\ ncalls' = ncalls + 1
         /\ UNCHANGED bInterfaceNumber

uvc_vs_get_error_code_return_unset == UVC_SUCCESS

uvc_vs_get_error_code_return == UVC_ERROR_NOT_SUPPORTED

\* The transfer is compiled out (#if 0); only the #else branch exists.
uvc_vs_get_error_code ==
  /\ ncalls < MaxCalls
  /\ \E req_code \in uvc_req_code :
       /\ op' = "uvc_vs_get_error_code"
       /\ arg' = [req_code |-> req_code]
       /\ xfers' = << >>
       /\ buf' = << >>
       /\ out' = << >>
       /\ ret' = uvc_vs_get_error_code_return
       /\ ncalls' = ncalls + 1
       /\ UNCHANGED <<bInterfaceNumber, nxfers>>

uvc_get_power_mode_request_errsel(req_code) ==
  libusb_control_transfer(REQ_TYPE_GET, req_code,
                          Shl(UVC_VC_REQUEST_ERROR_CODE_CONTROL, 8),
                          bInterfaceNumber,
                          "mode_char", 1, CTRL_TIMEOUT_MILLIS)

uvc_get_power_mode_request(req_code) ==
  libusb_control_transfer(REQ_TYPE_GET, req_code,
                          Shl(UVC_VC_VIDEO_POWER_MODE_CONTROL, 8),
                          bInterfaceNumber,
                          "mode_char", 1, CTRL_TIMEOUT_MILLIS)

\* mode_char is not initialised, and is read only after ret == 1, when the
\* device's byte is in it.  The cast to the enum keeps the byte's value.
uvc_get_power_mode ==
  /\ ncalls < MaxCalls
  /\ \E req_code \in uvc_req_code, r \in TransferResults, stack \in DataBytes :
       \E dev \in Delivered(r, 1, StatusBytes) :
         LET mode_char == Received(<<stack>>, dev)[1] IN
         /\ op' = "uvc_get_power_mode"
         /\ arg' = [req_code |-> req_code]
         /\ xfers' = <<Done(uvc_get_power_mode_request(req_code), r, dev)>>
         /\ buf' = << >>
         /\ IF r = 1
              THEN out' = <<mode_char>> /\ ret' = UVC_SUCCESS
              ELSE out' = << >> /\ ret' = r
         /\ nxfers' = nxfers + 1
         /\ ncalls' = ncalls + 1
         /\ UNCHANGED bInterfaceNumber

uvc_set_power_mode_request(mode) ==
  libusb_control_transfer(REQ_TYPE_SET, UVC_SET_CUR,
                          Shl(UVC_VC_VIDEO_POWER_MODE_CONTROL, 8),
                          bInterfaceNumber,
                          <<U8(mode)>>, 1, CTRL_TIMEOUT_MILLIS)

\* A variant that submits the transfer again after an error.
uvc_set_power_mode_retry ==
  /\ ncalls < MaxCalls
  /\ \E mode \in uvc_device_power_mode, r \in TransferResults, r2 \in TransferResults :
       LET t == Done(uvc_set_power_mode_request(mode), r, << >>)
           t2 == Done(uvc_set_power_mode_request(mode), r2, << >>)
           last == IF r < 0 THEN r2 ELSE r IN
       /\ op' = "uvc_set_power_mode"
       /\ arg' = [mode |-> mode]
       /\ xfers' = IF r < 0 THEN <<t, t2>> ELSE <<t>>
       /\ buf' = << >>
       /\ out' = << >>
       /\ ret' = IF last = 1 THEN UVC_SUCCESS ELSE last
       /\ nxfers' = nxfers + (IF r < 0 THEN 2 ELSE 1)
       /\ ncalls' = ncalls + 1
       /\ UNCHANGED bInterfaceNumber

\* mode_char, the one-byte data stage, is the mode's value as a uint8_t.
uvc_set_power_mode ==
  /\ ncalls < MaxCalls
  /\ \E mode \in uvc_device_power_mode, r \in TransferResults :
       /\ op' = "uvc_set_power_mode"
       /\ arg' = [mode |-> mode]
       /\ xfers' = <<Done(uvc_set_power_mode_request(mode), r, << >>)>>
       /\ buf' = << >>
       /\ out' = << >>
       /\ ret' = IF r = 1 THEN UVC_SUCCESS ELSE r
       /\ nxfers' = nxfers + 1
       /\ ncalls' = ncalls + 1
       /\ UNCHANGED bInterfaceNumber

(* ---------------------------- specification ---------------------------- *)
\* The state after the device was opened: no call made yet.
Init ==
  /\ bInterfaceNumber \in InterfaceNumbers
  /\ ncalls = 0
  /\ nxfers = 0
  /\ op = "none"
  /\ arg = [unit |-> 0, ctrl |-> 0]
  /\ xfers = << >>
  /\ buf = << >>
  /\ out = << >>
  /\ ret = 0

Next ==
  \/ uvc_get_ctrl_len
  \/ uvc_get_ctrl
  \/ uvc_set_ctrl
  \/ uvc_vc_get_error_code
  \/ uvc_vs_get_error_code
  \/ uvc_get_power_mode
  \/ uvc_set_power_mode

Spec == Init /\ [][Next]_vars

(* ------------------------------ properties ----------------------------- *)
TransferOps == {"uvc_get_ctrl_len", "uvc_get_ctrl", "uvc_set_ctrl",
                "uvc_vc_get_error_code", "uvc_get_power_mode", "uvc_set_power_mode"}

\* The transfer of the last call (calls that made one).
Setup == xfers[1].setup
Transferred == xfers[1].transferred
Device == xfers[1].dev

TypeOK ==
  /\ bInterfaceNumber \in InterfaceNumbers
  /\ ncalls \in 0 .. MaxCalls
  /\ nxfers \in 0 .. ncalls
  /\ op \in TransferOps \cup {"uvc_vs_get_error_code", "none"}
  /\ Len(xfers) \in 0 .. 1
  /\ Len(out) \in 0 .. 1

\* C1: the one-byte reads uvc_vc_get_error_code and uvc_get_power_mode report
\* success, with the decoded byte stored, if and only if the transfer
\* returned exactly 1; every other result, 0 included, is a failure.
C1_SingleByteReadSuccessIffOne ==
  op \in {"uvc_vc_get_error_code", "uvc_get_power_mode"} =>
    /\ (ret = UVC_SUCCESS) <=> (Transferred = 1)
    /\ (out # << >>) <=> (Transferred = 1)

\* C2: uvc_set_power_mode(m) issues a SET_CUR whose data stage is the one
\* byte m, and reports success if and only if the transfer returned exactly 1.
C2_SetPowerModeSuccessIffOne ==
  op = "uvc_set_power_mode" =>
    /\ Setup.bRequest = UVC_SET_CUR
    /\ Setup.bmRequestType = REQ_TYPE_SET
    /\ Setup.wLength = 1
    /\ Setup.data = <<arg.mode>>
    /\ (ret = UVC_SUCCESS) <=> (Transferred = 1)

\* C3: uvc_get_ctrl_len returns a negative transfer result unchanged, and
\* when the transfer delivered exactly two bytes b0, b1 it returns
\* b0 + 256 * b1, a value in 0 .. 65535.
C3_CtrlLenDecodesLittleEndian ==
  op = "uvc_get_ctrl_len" =>
    /\ Transferred < 0 => ret = Transferred
    /\ Transferred = 2 =>
         /\ ret = Device[1] + 256 * Device[2]
         /\ ret \in 0 .. 65535

C3_Witness ==
  /\ op = "uvc_get_ctrl_len"
  /\ Transferred = 2
  /\ Device = <<0, 255>>
  /\ ret = 65280

\* C4: when the GET_LEN transfer delivered 0 or 1 bytes instead of 2,
\* uvc_get_ctrl_len reports a failure (a negative value) and no length
\* decoded from bytes the device did not write.
C4_CtrlLenShortResponseFails ==
  (op = "uvc_get_ctrl_len" /\ Transferred \in {0, 1}) => ret < 0

\* C5: uvc_vs_get_error_code returns UVC_ERROR_NOT_SUPPORTED for every
\* request code in every state, makes no transfer, and stores no error code.
C5_VsErrorCodeNotSupported ==
  [][op' = "uvc_vs_get_error_code" =>
       /\ ret' = UVC_ERROR_NOT_SUPPORTED
       /\ ret' # UVC_SUCCESS
       /\ xfers' = << >>
       /\ nxfers' = nxfers
       /\ out' = << >>]_vars

C5_Witness ==
  /\ op = "uvc_vs_get_error_code"
  /\ ncalls = 2
  /\ nxfers = 1
  /\ ret = UVC_ERROR_NOT_SUPPORTED

\* C6: when the transfer of uvc_get_power_mode delivered one byte that is
\* the value of no defined power mode, uvc_get_power_mode reports an error;
\* it never reports success with a value outside the defined modes.
C6_PowerModeUnknownByteFails ==
  op = "uvc_get_power_mode" =>
    /\ (Transferred = 1 /\ Device[1] \notin uvc_device_power_mode) => ret # UVC_SUCCESS
    /\ (ret = UVC_SUCCESS /\ out # << >>) => out[1] \in uvc_device_power_mode

\* C7: uvc_get_ctrl_len, uvc_get_ctrl and uvc_set_ctrl pass wValue = ctrl * 256
\* and wIndex = unit * 256 + bInterfaceNumber, both 16-bit values from which
\* ctrl, unit and bInterfaceNumber are recovered; unit 5, interface 0, ctrl 9
\* give wValue 0x0900 and wIndex 0x0500.
C7_UnitAddressing ==
  op \in {"uvc_get_ctrl_len", "uvc_get_ctrl", "uvc_set_ctrl"} =>
    /\ Setup.wValue = arg.ctrl * 256
    /\ Setup.wIndex = arg.unit * 256 + bInterfaceNumber
    /\ Setup.wValue \in 0 .. 65535
    /\ Setup.wIndex \in 0 .. 65535
    /\ Setup.wValue % 256 = 0
    /\ Setup.wValue \div 256 = arg.ctrl
    /\ Setup.wIndex \div 256 = arg.unit
    /\ Setup.wIndex % 256 = bInterfaceNumber
    /\ (arg.unit = 5 /\ bInterfaceNumber = 0 /\ arg.ctrl = 9) =>
         (Setup.wValue = 2304 /\ Setup.wIndex = 1280)

C7_Witness ==
  /\ op = "uvc_get_ctrl"
  /\ arg.req_code = "UVC_GET_CUR"
  /\ arg.unit = 5
  /\ arg.ctrl = 9
  /\ bInterfaceNumber = 0
  /\ Setup.wValue = 2304
  /\ Setup.wIndex = 1280

\* C8: uvc_vc_get_error_code, uvc_get_power_mode and uvc_set_power_mode pass
\* wIndex = bInterfaceNumber (no unit in the high byte) and wValue = the
\* operation's own selector * 256, whatever the request code or the mode.
C8_InterfaceAddressing ==
  /\ op \in {"uvc_vc_get_error_code", "uvc_get_power_mode", "uvc_set_power_mode"} =>
       /\ Setup.wIndex = bInterfaceNumber
       /\ Setup.wIndex \div 256 = 0
  /\ op = "uvc_vc_get_error_code" =>
       Setup.wValue = UVC_VC_REQUEST_ERROR_CODE_CONTROL * 256
  /\ op \in {"uvc_get_power_mode", "uvc_set_power_mode"} =>
       Setup.wValue = UVC_VC_VIDEO_POWER_MODE_CONTROL * 256

C8_Witness ==
  /\ op = "uvc_get_power_mode"
  /\ arg.req_code = "UVC_GET_LEN"
  /\ bInterfaceNumber = 255
  /\ Setup.wIndex = 255
  /\ Setup.wValue = 256

\* C9: in any sequence of calls, each call of the six transferring
\* operations makes exactly one transfer whatever it returns, and when the
\* transfer returns -1 the call returns -1 without a second transfer.
C9_OneTransferPerCall ==
  [][op' \in TransferOps =>
       /\ nxfers' = nxfers + 1
       /\ Len(xfers') = 1
       /\ xfers'[1].transferred = 0 - 1 => ret' = 0 - 1]_vars

C9_Witness ==
  /\ op \in TransferOps
  /\ ncalls = 2
  /\ nxfers = 2
  /\ Transferred = 0 - 1
  /\ ret = 0 - 1

====
